---------------------------- MODULE Spec2Model ----------------------------
(***************************************************************************)
(* Model of the core of hftbacktest:                                       *)
(*   - the L3 market-by-order depth (rust/src/depth/l3mbomarketdepth.rs),  *)
(*   - the fan-in channel over IPC endpoints (hftbacktest/src/live/ipc.rs).*)
(*                                                                         *)
(* Prices are integers counting 1/TickSize of a tick and quantities are    *)
(* integers counting 1/LotSize of a lot, so that the two conversions of    *)
(* the code, round(px / tick_size) and round(qty / lot_size), really       *)
(* round (f32::round: half away from zero).  The values used are small     *)
(* dyadic multiples, on which f32 addition and subtraction are exact.      *)
(***************************************************************************)
EXTENDS Integers, Sequences, FiniteSets, TLC

\* ------------------------------------------------------------- bounds ---
MaxId == 2
MaxPx == 3
MaxQty == 1
MaxOps == 3
NumEndpoints == 2
MaxDst == 2
MaxMsgs == 1
MaxTimeout == 0
MaxSeqMsgs == 2
MaxSends == 2
\* length of the payload slot of a sample (128 in the code), scaled down
SliceLen == 8
MaxIn == 2
MaxTT == 1

\* ---------------------------------------------------------- constants ---
TickSize == 2
LotSize == 2
\* crate::depth::{INVALID_MIN, INVALID_MAX} are i32::MIN and i32::MAX, and
\* crate::types::{BUY, SELL} are 1 and -1.
INVALID_MAX == 2147483647
INVALID_MIN == (-2147483647) - 1
BUY == 1
SELL == -1
TO_ALL == 0

OrderIds == 1..MaxId
PxSet == 1..MaxPx
AddQtySet == 1..MaxQty
ModQtySet == 0..MaxQty
SideCodes == {BUY, SELL, 0}
Endpoints == 0..(NumEndpoints - 1)
DstIds == 0..MaxDst
RecvIds == 1..MaxDst
Timeouts == 0..MaxTimeout

\* ------------------------------------------------------------- state  ---
VARIABLES
    bid_depth,      \* BTreeMap<i32, f32>: price tick -> aggregate quantity
    ask_depth,      \* BTreeMap<i32, f32>
    orders,         \* HashMap<i64, MarketOrder>: id -> [side, price_tick, qty]
    best_bid_tick,  \* cached best bid tick
    best_ask_tick,  \* cached best ask tick
    ret,            \* the last book call and what it returned
    panicked,       \* an unwrap() on None has unwound the last call
    nops,           \* number of book calls made so far
    chan,           \* per endpoint, the samples published and not yet received
    pubsub_i,       \* PubSubList::pubsub_i, the round-robin index
    rpc,            \* "idle", or "loop" while recv_timeout is running
    rid,            \* the id argument of the last recv_timeout call
    rtimeout,       \* the timeout argument of the last recv_timeout call
    elapsed,        \* instant.elapsed() of the running recv_timeout call
    fret,           \* what the last recv_timeout call returned
    delivered,      \* the events returned by recv_timeout so far, in order
    discarded,      \* the samples received and dropped by recv_timeout
    sent,           \* number of samples published so far
    polls,          \* the endpoints of the last NumEndpoints Tick polls, in order
    svc,            \* one IPC service: the samples sent and not yet received
    svc_ret,        \* the last send or receive on svc and what it returned
    svc_sent,       \* the (id, data) pairs svc's sender has sent, in order
    svc_got,        \* the (id, data) pairs svc's receiver has returned, in order
    frombot,        \* per endpoint, the samples of its FromBot service
    sret,           \* the last PubSubList::send call and what it returned
    prev_u,         \* MarketDataStream::prev_u: lower-cased symbol -> update id
    fetching,       \* per symbol, the detached get_depth tasks still running
    rest_q,         \* the (symbol, snapshot) pairs sent on rest_tx, not yet taken
    ev_tx,          \* the events sent on the outbound queue, in order
    ws_out,         \* the frames written to the WebSocket, in order
    cstate,         \* "running", or what connect() returned
    last_in,        \* the input the select loop handled last
    nin,            \* number of inputs the select loop has handled
    nfetch,         \* number of get_depth tasks spawned so far
    failed,         \* the symbols whose latest get_depth task failed
    xu              \* per symbol, the last_update_id of the latest diff read

bookVars == <<bid_depth, ask_depth, orders, best_bid_tick, best_ask_tick,
              ret, panicked, nops>>

fanVars == <<chan, pubsub_i, rpc, rid, rtimeout, elapsed, fret, delivered,
             discarded, sent, polls>>

ipcVars == <<svc, svc_ret, svc_sent, svc_got, frombot, sret>>

mdsVars == <<prev_u, fetching, rest_q, ev_tx, ws_out, cstate, last_in, nin,
             nfetch, failed, xu>>

nonBookVars == <<fanVars, ipcVars, mdsVars>>

nonFanVars == <<bookVars, ipcVars, mdsVars>>

nonIpcVars == <<bookVars, fanVars, mdsVars>>

nonMdsVars == <<bookVars, fanVars, ipcVars>>

vars == <<bid_depth, ask_depth, orders, best_bid_tick, best_ask_tick,
          ret, panicked, nops,
          chan, pubsub_i, rpc, rid, rtimeout, elapsed, fret, delivered,
          discarded, sent, polls,
          svc, svc_ret, svc_sent, svc_got, frombot, sret,
          prev_u, fetching, rest_q, ev_tx, ws_out, cstate, last_in, nin,
          nfetch, failed, xu>>

\* ------------------------------------------------------------ helpers ---
\* f32::round of n/d for d > 0: to nearest, ties away from zero.
Round(n, d) ==
    IF n >= 0 THEN (2 * n + d) \div (2 * d)
              ELSE -((2 * (-n) + d) \div (2 * d))

\* (px / self.tick_size).round() as i32
PriceTick(px) == Round(px, TickSize)

\* (*depth_qty / self.lot_size).round() as i32
LotRound(qty) == Round(qty, LotSize)

EmptyMap == [k \in {} |-> 0]

\* BTreeMap::remove
MapRemove(m, k) == [x \in (DOMAIN m) \ {k} |-> m[x]]

\* *m.entry(k).or_insert(0.0) += q
EntryAdd(m, k, q) ==
    [x \in (DOMAIN m) \cup {k} |->
        IF x = k THEN (IF k \in DOMAIN m THEN m[k] ELSE 0) + q ELSE m[x]]

\* *m.get(&k).unwrap_or(&0.0)
QtyAt(m, k) == IF k \in DOMAIN m THEN m[k] ELSE 0

\* *m.keys().last().unwrap_or(&INVALID_MIN)
LastKey(m) ==
    IF DOMAIN m = {} THEN INVALID_MIN
    ELSE CHOOSE k \in DOMAIN m : \A x \in DOMAIN m : x <= k

\* *m.keys().next().unwrap_or(&INVALID_MAX)
FirstKey(m) ==
    IF DOMAIN m = {} THEN INVALID_MAX
    ELSE CHOOSE k \in DOMAIN m : \A x \in DOMAIN m : k <= x

\* The fields of L3MBOMarketDepth as one value.
Book ==
    [bid_depth |-> bid_depth, ask_depth |-> ask_depth, orders |-> orders,
     best_bid_tick |-> best_bid_tick, best_ask_tick |-> best_ask_tick]

EmptyBook ==
    [bid_depth |-> EmptyMap, ask_depth |-> EmptyMap, orders |-> EmptyMap,
     best_bid_tick |-> INVALID_MIN, best_ask_tick |-> INVALID_MAX]

NoRet == [op |-> "none", id |-> 0, side |-> "None", code |-> 0,
          res |-> "None", val |-> <<>>]

\* What a call leaves behind: the book, the value returned, or a panic.
Out(b, op, id, side, code, res, val) ==
    [b |-> b,
     ret |-> [op |-> op, id |-> id, side |-> side, code |-> code,
              res |-> res, val |-> val]]

\* --------------------------------------------- L3MBOMarketDepth (pure) ---
\* L3MBOMarketDepth::add: the level is credited before the id is looked up.
add(b, order_id, side, price_tick, qty) ==
    LET credited ==
            IF side = "Buy"
            THEN [b EXCEPT !.bid_depth = EntryAdd(b.bid_depth, price_tick, qty)]
            ELSE [b EXCEPT !.ask_depth = EntryAdd(b.ask_depth, price_tick, qty)]
    IN  IF order_id \in DOMAIN b.orders
        THEN [b |-> credited, res |-> "OrderIdExist"]
        ELSE [b |-> [credited EXCEPT !.orders =
                        [x \in (DOMAIN b.orders) \cup {order_id} |->
                            IF x = order_id
                            THEN [side |-> side, price_tick |-> price_tick,
                                  qty |-> qty]
                            ELSE b.orders[x]]],
              res |-> "Ok"]

add_buy_order(b, order_id, px, qty) ==
    LET price_tick == PriceTick(px)
        a == add(b, order_id, "Buy", price_tick, qty)
        prev_best_tick == a.b.best_bid_tick
        b2 == IF price_tick > a.b.best_bid_tick
              THEN [a.b EXCEPT !.best_bid_tick = LastKey(a.b.bid_depth)]
              ELSE a.b
    IN  IF a.res # "Ok"
        THEN Out(a.b, "add_buy_order", order_id, "Buy", BUY, a.res, <<>>)
        ELSE Out(b2, "add_buy_order", order_id, "Buy", BUY, "Ok",
                 <<prev_best_tick, b2.best_bid_tick>>)

add_sell_order(b, order_id, px, qty) ==
    LET price_tick == PriceTick(px)
        a == add(b, order_id, "Sell", price_tick, qty)
        prev_best_tick == a.b.best_ask_tick
        b2 == IF price_tick < a.b.best_ask_tick
              THEN [a.b EXCEPT !.best_ask_tick = FirstKey(a.b.ask_depth)]
              ELSE a.b
    IN  IF a.res # "Ok"
        THEN Out(a.b, "add_sell_order", order_id, "Sell", SELL, a.res, <<>>)
        ELSE Out(b2, "add_sell_order", order_id, "Sell", SELL, "Ok",
                 <<prev_best_tick, b2.best_ask_tick>>)

\* depth_qty -= qty on the level at tick; the level is dropped when the rest
\* is zero in lot units.
DebitAndDrop(m, tick, qty) ==
    LET rest == m[tick] - qty
    IN  IF LotRound(rest) = 0 THEN MapRemove(m, tick)
        ELSE [m EXCEPT ![tick] = rest]

delete_order(b, order_id) ==
    IF order_id \notin DOMAIN b.orders
    THEN Out(b, "delete_order", order_id, "None", 0, "OrderNotFound", <<>>)
    ELSE
      LET order == b.orders[order_id]
          b1 == [b EXCEPT !.orders = MapRemove(b.orders, order_id)]
      IN  IF order.side = "Buy"
          THEN IF order.price_tick \notin DOMAIN b1.bid_depth
               THEN Out(b1, "delete_order", order_id, "Buy", BUY, "Panic", <<>>)
               ELSE Out([b1 EXCEPT !.bid_depth =
                            DebitAndDrop(b1.bid_depth, order.price_tick, order.qty)],
                        "delete_order", order_id, "Buy", BUY, "Ok", <<>>)
          ELSE IF order.price_tick \notin DOMAIN b1.ask_depth
               THEN Out(b1, "delete_order", order_id, "Sell", SELL, "Panic", <<>>)
               ELSE Out([b1 EXCEPT !.ask_depth =
                            DebitAndDrop(b1.ask_depth, order.price_tick, order.qty)],
                        "delete_order", order_id, "Sell", SELL, "Ok", <<>>)

\* modify_order, the branch of a Buy order (lines 123-146).
ModifyBuy(b, order_id, px, qty) ==
    LET order == b.orders[order_id]
        price_tick == PriceTick(px)
        moved == [order EXCEPT !.price_tick = price_tick, !.qty = qty]
    IN  IF order.price_tick \notin DOMAIN b.bid_depth
        THEN Out(b, "modify_order", order_id, "Buy", BUY, "Panic", <<>>)
        ELSE IF price_tick # order.price_tick
        THEN
          LET b1 == [b EXCEPT
                       !.bid_depth = DebitAndDrop(b.bid_depth, order.price_tick,
                                                  order.qty),
                       !.orders = [b.orders EXCEPT ![order_id] = moved]]
              b2 == [b1 EXCEPT !.bid_depth = EntryAdd(b1.bid_depth, price_tick, qty)]
              prev_best_tick == b2.best_bid_tick
              b3 == IF price_tick > b2.best_bid_tick
                    THEN [b2 EXCEPT !.best_bid_tick = LastKey(b2.bid_depth)]
                    ELSE b2
          IN  Out(b3, "modify_order", order_id, "Buy", BUY, "Ok",
                  <<prev_best_tick, b3.best_bid_tick>>)
        ELSE
          Out([b EXCEPT
                 !.bid_depth = [b.bid_depth EXCEPT ![order.price_tick] =
                                   b.bid_depth[order.price_tick] + (qty - order.qty)],
                 !.orders = [b.orders EXCEPT ![order_id] = moved]],
              "modify_order", order_id, "Buy", BUY, "Ok",
              <<b.best_bid_tick, b.best_bid_tick>>)

\* modify_order, the branch of a Sell order (lines 147-171).  On a price
\* change the old ask level is debited, and when the rest is zero in lot
\* units line 153 removes the key from bid_depth and unwraps the result.
ModifySell(b, order_id, px, qty) ==
    LET order == b.orders[order_id]
        price_tick == PriceTick(px)
        moved == [order EXCEPT !.price_tick = price_tick, !.qty = qty]
    IN  IF order.price_tick \notin DOMAIN b.ask_depth
        THEN Out(b, "modify_order", order_id, "Sell", SELL, "Panic", <<>>)
        ELSE IF price_tick # order.price_tick
        THEN
          LET rest == b.ask_depth[order.price_tick] - order.qty
              debited == [b EXCEPT !.ask_depth =
                             [b.ask_depth EXCEPT ![order.price_tick] = rest]]
              emptied == LotRound(rest) = 0
          IN  IF emptied /\ order.price_tick \notin DOMAIN b.bid_depth
              THEN Out(debited, "modify_order", order_id, "Sell", SELL,
                       "Panic", <<>>)
              ELSE
                LET b1 == IF emptied
                          THEN [debited EXCEPT !.bid_depth =
                                   MapRemove(debited.bid_depth, order.price_tick)]
                          ELSE debited
                    b2 == [b1 EXCEPT
                             !.orders = [b1.orders EXCEPT ![order_id] = moved],
                             !.ask_depth = EntryAdd(b1.ask_depth, price_tick, qty)]
                    prev_best_tick == b2.best_ask_tick
                    b3 == IF price_tick < b2.best_ask_tick
                          THEN [b2 EXCEPT !.best_ask_tick = FirstKey(b2.ask_depth)]
                          ELSE b2
                IN  Out(b3, "modify_order", order_id, "Sell", SELL, "Ok",
                        <<prev_best_tick, b3.best_ask_tick>>)
        ELSE
          Out([b EXCEPT
                 !.ask_depth = [b.ask_depth EXCEPT ![order.price_tick] =
                                   b.ask_depth[order.price_tick] + (qty - order.qty)],
                 !.orders = [b.orders EXCEPT ![order_id] = moved]],
              "modify_order", order_id, "Sell", SELL, "Ok",
              <<b.best_ask_tick, b.best_ask_tick>>)

modify_order(b, order_id, px, qty) ==
    IF order_id \notin DOMAIN b.orders
    THEN Out(b, "modify_order", order_id, "None", 0, "OrderNotFound", <<>>)
    ELSE IF b.orders[order_id].side = "Buy"
         THEN ModifyBuy(b, order_id, px, qty)
         ELSE ModifySell(b, order_id, px, qty)

\* clear_depth as it would be if it stopped at clear_upto_price: only the
\* bid levels at or above it, or the ask levels at or below it, are removed.
clear_depth_upto(b, side, clear_upto_price) ==
    LET upto == PriceTick(clear_upto_price)
    IN  IF side = BUY
        THEN Out([b EXCEPT !.bid_depth =
                     [t \in {x \in DOMAIN b.bid_depth : x < upto} |->
                         b.bid_depth[t]]],
                 "clear_depth", 0, "None", side, "Ok", <<>>)
        ELSE Out([b EXCEPT !.ask_depth =
                     [t \in {x \in DOMAIN b.ask_depth : x > upto} |->
                         b.ask_depth[t]]],
                 "clear_depth", 0, "None", side, "Ok", <<>>)

\* clear_depth: clear_upto_price is not read.
clear_depth(b, side, clear_upto_price) ==
    IF side = BUY
    THEN Out([b EXCEPT !.bid_depth = EmptyMap],
             "clear_depth", 0, "None", side, "Ok", <<>>)
    ELSE Out([b EXCEPT !.ask_depth = EmptyMap],
             "clear_depth", 0, "None", side, "Ok", <<>>)

\* ------------------------------------------------------------ actions ---
BookInit ==
    /\ bid_depth = EmptyMap
    /\ ask_depth = EmptyMap
    /\ orders = EmptyMap
    /\ best_bid_tick = INVALID_MIN
    /\ best_ask_tick = INVALID_MAX
    /\ ret = NoRet
    /\ panicked = FALSE
    /\ nops = 0

\* ------------------------------------------------ PubSubList (fan-in)  ---
FanInInit ==
    /\ chan = [e \in Endpoints |-> <<>>]
    /\ pubsub_i = 0
    /\ rpc = "idle"
    /\ rid = 0
    /\ rtimeout = 0
    /\ elapsed = 0
    /\ fret = [res |-> "None", ev |-> 0]
    /\ delivered = <<>>
    /\ discarded = {}
    /\ sent = 0
    /\ polls = <<>>

\* The receive as it would be if the subscriber handed out the newest
\* sample of its buffer.
Receive_newest(q) == [sample |-> q[Len(q)], rest |-> SubSeq(q, 1, Len(q) - 1)]

\* subscriber.receive() on a buffer q that holds a sample: the oldest sample
\* leaves the buffer.
Receive(q) == [sample |-> Head(q), rest |-> Tail(q)]

\* ------------------------------------------------- IPC endpoint: codec ---
\* A message is a sequence of u64 fields.  bincode with config::standard()
\* writes an unsigned integer as a varint: one byte below 251, else the
\* marker 251 and two little-endian bytes below 2^16, else the marker 252
\* and four little-endian bytes (the fields used here are below 2^32).
LEBytes(v, k) == [i \in 1..k |-> (v \div (256 ^ (i - 1))) % 256]

Varint(v) ==
    IF v < 251 THEN <<v>>
    ELSE IF v < 65536 THEN <<251>> \o LEBytes(v, 2)
    ELSE <<252>> \o LEBytes(v, 4)

RECURSIVE EncodeFields(_)
EncodeFields(m) ==
    IF m = <<>> THEN <<>> ELSE Varint(Head(m)) \o EncodeFields(Tail(m))

\* bincode::encode_into_slice(data, payload, config::standard()): the bytes
\* written, a length prefix and then the fields.
Encode(m) == Varint(Len(m)) \o EncodeFields(m)

RECURSIVE FromLE(_, _, _)
FromLE(bytes, pos, k) ==
    IF k = 0 THEN 0 ELSE bytes[pos] + 256 * FromLE(bytes, pos + 1, k - 1)

\* One varint read at pos: the value and the position after it.
DecodeVarint(bytes, pos) ==
    IF pos > Len(bytes) THEN [ok |-> FALSE, val |-> 0, next |-> pos]
    ELSE LET b == bytes[pos]
             k == IF b = 251 THEN 2 ELSE IF b = 252 THEN 4 ELSE 0
         IN  IF b < 251 THEN [ok |-> TRUE, val |-> b, next |-> pos + 1]
             ELSE IF k = 0 \/ pos + k > Len(bytes)
                  THEN [ok |-> FALSE, val |-> 0, next |-> pos]
                  ELSE [ok |-> TRUE, val |-> FromLE(bytes, pos + 1, k),
                        next |-> pos + 1 + k]

RECURSIVE DecodeFields(_, _, _)
DecodeFields(bytes, pos, n) ==
    IF n = 0 THEN [ok |-> TRUE, val |-> <<>>]
    ELSE LET f == DecodeVarint(bytes, pos)
             r == DecodeFields(bytes, f.next, n - 1)
         IN  IF f.ok /\ r.ok
             THEN [ok |-> TRUE, val |-> <<f.val>> \o r.val]
             ELSE [ok |-> FALSE, val |-> <<>>]

\* bincode::decode_from_slice(bytes, config::standard()).
Decode(bytes) ==
    LET n == DecodeVarint(bytes, 1)
    IN  IF n.ok THEN DecodeFields(bytes, n.next, n.val)
        ELSE [ok |-> FALSE, val |-> <<>>]

\* A message whose encoding does not fit the slot.
BigData == [i \in 1..SliceLen |-> 70000]

Datas == {<<>>, <<250, 251>>, <<70000>>, BigData}

\* What the bytes of a loaned slot hold before anything is written to them.
Garbage == {255}

Failures == {"none", "loan", "send"}

\* The send as it would be with the header id left at its default.
SenderSend_noid(q, id, data, g, fail) ==
    LET enc == Encode(data)
    IN  IF fail = "loan" THEN [q |-> q, res |-> "PublisherLoan"]
        ELSE IF Len(enc) > SliceLen THEN [q |-> q, res |-> "Encode"]
        ELSE IF fail = "send" THEN [q |-> q, res |-> "PublisherSend"]
        ELSE [q |-> Append(q, [id |-> 0, len |-> Len(enc),
                    payload |-> enc \o [i \in 1..(SliceLen - Len(enc)) |-> g]]),
              res |-> "Ok"]

\* IceoryxSender::send(id, data) on a service whose subscriber buffer is q;
\* g is what the loaned slot held, fail the step of the transport that
\* fails, if any.
SenderSend(q, id, data, g, fail) ==
    LET enc == Encode(data)
    IN  IF fail = "loan" THEN [q |-> q, res |-> "PublisherLoan"]
        ELSE IF Len(enc) > SliceLen THEN [q |-> q, res |-> "Encode"]
        ELSE IF fail = "send" THEN [q |-> q, res |-> "PublisherSend"]
        ELSE [q |-> Append(q, [id |-> id, len |-> Len(enc),
                    payload |-> enc \o [i \in 1..(SliceLen - Len(enc)) |-> g]]),
              res |-> "Ok"]

\* IceoryxReceiver::receive() on a service whose subscriber buffer is q.
ReceiverReceive(q, fail) ==
    IF fail THEN [q |-> q, res |-> "SubscriberReceive", id |-> 0, data |-> <<>>]
    ELSE IF q = <<>> THEN [q |-> q, res |-> "None", id |-> 0, data |-> <<>>]
    ELSE LET sample == Receive(q).sample
             dec == Decode(SubSeq(sample.payload, 1, sample.len))
         IN  IF dec.ok
             THEN [q |-> Receive(q).rest, res |-> "Some", id |-> sample.id,
                   data |-> dec.val]
             ELSE [q |-> Receive(q).rest, res |-> "Decode", id |-> 0,
                   data |-> <<>>]

NoIpcRet == [op |-> "none", res |-> "None", id |-> 0, data |-> <<>>]

IpcInit ==
    /\ svc = <<>>
    /\ svc_ret = NoIpcRet
    /\ svc_sent = <<>>
    /\ svc_got = <<>>
    /\ frombot = [e \in Endpoints |-> <<>>]
    /\ sret = [res |-> "None", asset_no |-> 0, data |-> <<>>]

\* --------------------------------------- market-data stream: helpers  ---
\* Strings are sequences of character codes.
ToLowerChar(c) == IF c >= 65 /\ c <= 90 THEN c + 32 ELSE c

\* str::to_lowercase
to_lowercase(str) == [i \in DOMAIN str |-> ToLowerChar(str[i])]

\* "BT", "bt" and "et"
Symbols == {<<66, 84>>, <<98, 116>>, <<101, 116>>}

LowerSymbols == {to_lowercase(sym) : sym \in Symbols}

RECURSIVE ParseNum(_)
\* The number a decimal string stands for, -1 for a string that is none.
ParseNum(str) ==
    IF str = <<>> THEN -1
    ELSE LET c == str[Len(str)]
             init == SubSeq(str, 1, Len(str) - 1)
         IN  IF c < 48 \/ c > 57 THEN -1
             ELSE IF init = <<>> THEN c - 48
             ELSE IF ParseNum(init) < 0 THEN -1
             ELSE 10 * ParseNum(init) + (c - 48)

\* utils::parse_px_qty_tup(px, qty)
parse_px_qty_tup(px, qty) ==
    IF ParseNum(px) < 0 \/ ParseNum(qty) < 0
    THEN [ok |-> FALSE, px |-> 0, qty |-> 0]
    ELSE [ok |-> TRUE, px |-> ParseNum(px), qty |-> ParseNum(qty)]

ParseLevels(levels) ==
    [i \in DOMAIN levels |-> parse_px_qty_tup(levels[i][1], levels[i][2])]

\* utils::parse_depth(bids, asks): every level parsed, or an error.
parse_depth(bids, asks) ==
    LET b == ParseLevels(bids)
        a == ParseLevels(asks)
    IN  IF (\A i \in DOMAIN b : b[i].ok) /\ (\A i \in DOMAIN a : a[i].ok)
        THEN [ok |-> TRUE, bids |-> b, asks |-> a]
        ELSE [ok |-> FALSE, bids |-> <<>>, asks |-> <<>>]

\* Level lists as (price, quantity) string pairs: "7"/"10"; "8"/"0" and
\* "9"/"3"; and a malformed one, "7"/"x".
OneLevel == << <<<<55>>, <<49, 48>>>> >>

TwoLevels == << <<<<56>>, <<48>>>>, <<<<57>>, <<51>>>> >>

BadLevel == << <<<<55>>, <<120>>>> >>

DepthShapes ==
    {[bids |-> TwoLevels, asks |-> OneLevel],
     [bids |-> BadLevel, asks |-> OneLevel]}

SnapShapes ==
    {[bids |-> OneLevel, asks |-> TwoLevels],
     [bids |-> OneLevel, asks |-> BadLevel]}

TradeShapes == {OneLevel[1], BadLevel[1]}

TTimes == 1..MaxTT

\* PublishMessage::LiveEvent(LiveEvent::Feed { symbol, event }) for one level
\* (local_ts, the wall clock, and the constant fields are left out).
FeedEvent(ev, symbol, tt, px, qty) ==
    [ev |-> ev, symbol |-> symbol, exch_ts |-> tt * 1000000,
     px |-> px, qty |-> qty]

LevelEvents(ev, symbol, tt, levels) ==
    [i \in DOMAIN levels |->
        FeedEvent(ev, symbol, tt, levels[i].px, levels[i].qty)]

Put(f, k, v) == [x \in DOMAIN f \cup {k} |-> IF x = k THEN v ELSE f[x]]

MdsInit ==
    /\ prev_u = <<>>
    /\ fetching = [sym \in LowerSymbols |-> 0]
    /\ rest_q = <<>>
    /\ ev_tx = <<>>
    /\ ws_out = <<>>
    /\ cstate = "running"
    /\ last_in = [kind |-> "none"]
    /\ nin = 0
    /\ nfetch = 0
    /\ failed = {}
    /\ xu = [sym \in LowerSymbols |-> 0]

Init == BookInit /\ FanInInit /\ IpcInit /\ MdsInit

\* The destination test as it would be without the comparison with id.
Accepts_any(dst_id, id) == dst_id = 0 \/ dst_id # 0

\* if let Some((dst_id, ev)) ... { if dst_id == 0 || dst_id == id
Accepts(dst_id, id) == dst_id = 0 \/ dst_id = id

\* The index step as it would be without the increment.
NextIndex_stuck(i) == IF i = NumEndpoints THEN 0 ELSE i

\* self.pubsub_i += 1; if self.pubsub_i == self.pubsub.len() { self.pubsub_i = 0 }
NextIndex(i) == IF i + 1 = NumEndpoints THEN 0 ELSE i + 1

\* IceoryxSender::send(id, data) by the connector on the ToBot service of
\* endpoint e: the sample joins the subscriber's buffer.  The event is named
\* by its sequence number.
PublishUpTo(max) ==
    \E e \in Endpoints, dst \in DstIds :
        /\ sent < max
        /\ sent' = sent + 1
        /\ chan' = [chan EXCEPT ![e] = Append(@, [n |-> sent + 1, dst |-> dst])]
        /\ UNCHANGED <<pubsub_i, rpc, rid, rtimeout, elapsed, fret, delivered,
                       discarded, polls>>
        /\ UNCHANGED nonFanVars

Publish == PublishUpTo(MaxMsgs)

\* recv_timeout is entered: let instant = Instant::now().
RecvEnter ==
    \E id \in RecvIds, timeout \in Timeouts :
        /\ rpc = "idle"
        /\ rpc' = "loop"
        /\ rid' = id
        /\ rtimeout' = timeout
        /\ elapsed' = 0
        /\ UNCHANGED <<chan, pubsub_i, fret, delivered, discarded, sent,
                       polls>>
        /\ UNCHANGED nonFanVars

\* if elapsed > timeout { return Err(BotError::Timeout) }
RecvTimeout ==
    /\ rpc = "loop"
    /\ elapsed > rtimeout
    /\ rpc' = "idle"
    /\ fret' = [res |-> "Timeout", ev |-> 0]
    /\ UNCHANGED <<chan, pubsub_i, rid, rtimeout, elapsed, delivered,
                   discarded, sent, polls>>
    /\ UNCHANGED nonFanVars

\* The last NumEndpoints entries of the poll record s.
Window(s) ==
    IF Len(s) <= NumEndpoints THEN s
    ELSE SubSeq(s, Len(s) - NumEndpoints + 1, Len(s))

\* The clock after one more wait of the loop.
Later(d) == IF elapsed + d > MaxTimeout + 1 THEN MaxTimeout + 1 ELSE elapsed + d

\* One iteration in which node.wait returns Tick and receive() on endpoint e
\* succeeds: None, a sample for this caller, or a sample for someone else.
RecvTickOk(e) ==
    /\ rpc = "loop"
    /\ elapsed <= rtimeout
    /\ pubsub_i = e
    /\ pubsub_i' = NextIndex(pubsub_i)
    /\ polls' = Window(Append(polls, e))
    /\ \E d \in 0..1 : elapsed' = Later(d)
    /\ IF chan[e] = <<>>
       THEN UNCHANGED <<chan, rpc, fret, delivered, discarded>>
       ELSE LET m == Receive(chan[e]).sample
            IN  /\ chan' = [chan EXCEPT ![e] = Receive(chan[e]).rest]
                /\ IF Accepts(m.dst, rid)
                   THEN /\ rpc' = "idle"
                        /\ fret' = [res |-> "Ok", ev |-> m.n]
                        /\ delivered' = Append(delivered,
                              [n |-> m.n, dst |-> m.dst, to |-> rid, ep |-> e])
                        /\ UNCHANGED discarded
                   ELSE /\ discarded' = discarded \cup
                              {[n |-> m.n, dst |-> m.dst, by |-> rid]}
                        /\ UNCHANGED <<rpc, fret, delivered>>
    /\ UNCHANGED <<rid, rtimeout, sent>>
    /\ UNCHANGED nonFanVars

RecvTick == \E e \in Endpoints : RecvTickOk(e)

\* The failed receive as it would be with the index step placed after the
\* receive, where the ? operator skips it.
RecvTickErr_noadvance ==
    /\ rpc = "loop"
    /\ elapsed <= rtimeout
    /\ polls' = Window(Append(polls, pubsub_i))
    /\ rpc' = "idle"
    /\ fret' = [res |-> "Custom", ev |-> 0]
    /\ UNCHANGED <<chan, pubsub_i, rid, rtimeout, elapsed, delivered,
                   discarded, sent>>
    /\ UNCHANGED nonFanVars

\* One iteration in which node.wait returns Tick and subscriber.receive()
\* fails: the index has advanced, no sample is taken, Custom is returned.
RecvTickErr ==
    /\ rpc = "loop"
    /\ elapsed <= rtimeout
    /\ pubsub_i' = NextIndex(pubsub_i)
    /\ polls' = Window(Append(polls, pubsub_i))
    /\ rpc' = "idle"
    /\ fret' = [res |-> "Custom", ev |-> 0]
    /\ UNCHANGED <<chan, rid, rtimeout, elapsed, delivered, discarded, sent>>
    /\ UNCHANGED nonFanVars

\* The interrupt as it would be if the signal were looked at only after the
\* index step of the Tick arm.
RecvInterrupted_afterstep ==
    /\ rpc = "loop"
    /\ elapsed <= rtimeout
    /\ pubsub_i' = NextIndex(pubsub_i)
    /\ rpc' = "idle"
    /\ fret' = [res |-> "Interrupted", ev |-> 0]
    /\ UNCHANGED <<chan, rid, rtimeout, elapsed, delivered, discarded, sent,
                   polls>>
    /\ UNCHANGED nonFanVars

\* node.wait returns TerminationRequest or InterruptSignal.
RecvInterrupted ==
    /\ rpc = "loop"
    /\ elapsed <= rtimeout
    /\ rpc' = "idle"
    /\ fret' = [res |-> "Interrupted", ev |-> 0]
    /\ UNCHANGED <<chan, pubsub_i, rid, rtimeout, elapsed, delivered,
                   discarded, sent, polls>>
    /\ UNCHANGED nonFanVars

FanInNext ==
    \/ Publish
    \/ RecvEnter
    \/ RecvTimeout
    \/ RecvTick
    \/ RecvTickErr
    \/ RecvInterrupted

FanInSpec == Init /\ [][FanInNext]_vars

\* A strategy that owns the id rid and passes it to every call.
FanInLiveInit ==
    /\ BookInit
    /\ IpcInit
    /\ MdsInit
    /\ chan = [e \in Endpoints |-> <<>>]
    /\ pubsub_i = 0
    /\ rpc = "idle"
    /\ rid \in RecvIds
    /\ rtimeout = 0
    /\ elapsed = 0
    /\ fret = [res |-> "None", ev |-> 0]
    /\ delivered = <<>>
    /\ discarded = {}
    /\ sent = 0
    /\ polls = <<>>

RecvEnterSameId ==
    /\ rid' = rid
    /\ RecvEnter

\* The steps of the strategy that owns the channel.
LiveRecvStep ==
    \/ RecvEnterSameId
    \/ RecvTimeout
    \/ RecvTick
    \/ RecvTickErr
    \/ RecvInterrupted

FanInLiveNext ==
    \/ Publish
    \/ RecvEnterSameId
    \/ RecvTimeout
    \/ RecvTick
    \/ RecvTickErr
    \/ RecvInterrupted

\* The strategy keeps running, and on every endpoint the wait keeps
\* returning Tick with a receive that does not fail.
FanInLiveSpec ==
    /\ FanInLiveInit
    /\ [][FanInLiveNext]_vars
    /\ WF_vars(LiveRecvStep)
    /\ \A e \in Endpoints : SF_vars(RecvTickOk(e))

\* A strategy that owns the id rid, with up to MaxSeqMsgs samples published.
PublishSeq == PublishUpTo(MaxSeqMsgs)

FanInSeqNext ==
    \/ PublishSeq
    \/ RecvEnterSameId
    \/ RecvTimeout
    \/ RecvTick
    \/ RecvTickErr
    \/ RecvInterrupted

FanInSeqSpec == FanInLiveInit /\ [][FanInSeqNext]_vars

\* ----------------------------------------------- IPC endpoint: actions ---
\* IceoryxSender::send(id, data) on the service svc.
IpcSend ==
    \E id \in DstIds, data \in Datas, g \in Garbage, fail \in Failures :
        LET out == SenderSend(svc, id, data, g, fail)
        IN  /\ Len(svc_sent) < MaxSends
            /\ svc' = out.q
            /\ svc_ret' = [op |-> "send", res |-> out.res, id |-> 0,
                           data |-> <<>>]
            /\ svc_sent' = IF out.res = "Ok"
                           THEN Append(svc_sent, <<id, data>>)
                           ELSE svc_sent
            /\ UNCHANGED <<svc_got, frombot, sret>>
            /\ UNCHANGED nonIpcVars

\* IceoryxReceiver::receive() on the service svc.
IpcReceive ==
    \E fail \in BOOLEAN :
        LET out == ReceiverReceive(svc, fail)
        IN  /\ svc' = out.q
            /\ svc_ret' = [op |-> "receive", res |-> out.res, id |-> out.id,
                           data |-> out.data]
            /\ svc_got' = IF out.res = "Some"
                          THEN Append(svc_got, <<out.id, out.data>>)
                          ELSE svc_got
            /\ UNCHANGED <<svc_sent, frombot, sret>>
            /\ UNCHANGED nonIpcVars

IpcNext ==
    \/ IpcSend
    \/ IpcReceive

IpcSpec == Init /\ [][IpcNext]_vars

AssetNos == 0..(NumEndpoints + 1)

\* The channel send as it would be with the index reduced modulo the length
\* of the list.
send_wrapped(fb, asset_no, request, g, fail) ==
    LET out == SenderSend(fb[asset_no % NumEndpoints], TO_ALL, request, g, fail)
    IN  [fb |-> [fb EXCEPT ![asset_no % NumEndpoints] = out.q],
         res |-> IF out.res = "Ok" THEN "Ok" ELSE "Custom"]

\* PubSubList::send(asset_no, request) on the FromBot buffers fb.
send(fb, asset_no, request, g, fail) ==
    IF asset_no \notin DOMAIN fb
    THEN [fb |-> fb, res |-> "AssetNotFound"]
    ELSE LET out == SenderSend(fb[asset_no], TO_ALL, request, g, fail)
         IN  [fb |-> [fb EXCEPT ![asset_no] = out.q],
              res |-> IF out.res = "Ok" THEN "Ok" ELSE "Custom"]

RECURSIVE Pending(_, _)
\* Number of samples in the buffers fb of the endpoints es.
Pending(fb, es) ==
    IF es = {} THEN 0
    ELSE LET e == CHOOSE x \in es : TRUE
         IN  Len(fb[e]) + Pending(fb, es \ {e})

ChanSend ==
    \E asset_no \in AssetNos, request \in Datas, g \in Garbage,
       fail \in Failures :
        LET out == send(frombot, asset_no, request, g, fail)
        IN  /\ Pending(frombot, Endpoints) < MaxSends
            /\ frombot' = out.fb
            /\ sret' = [res |-> out.res, asset_no |-> asset_no,
                        data |-> request]
            /\ UNCHANGED <<svc, svc_ret, svc_sent, svc_got>>
            /\ UNCHANGED nonIpcVars

ChanSendNext == ChanSend

ChanSendSpec == Init /\ [][ChanSendNext]_vars

\* --------------------------------------- market-data stream: actions  ---
\* The events of one source, marked with where they come from: "diff" or
\* "snap" and the last_update_id of the diff or snapshot, 0 for a trade.
Tagged(events, src, u) ==
    [i \in DOMAIN events |-> [e |-> events[i], src |-> src, u |-> u]]

\* process_message(Stream::DepthUpdate(data)) as it would be with the ask
\* levels sent before the bid levels.
ProcessDepthUpdate_asksfirst(data, u) ==
    LET sym == to_lowercase(data.symbol)
        spawn == sym \notin DOMAIN prev_u
        pd == parse_depth(data.bids, data.asks)
    IN  /\ fetching' = IF spawn THEN [fetching EXCEPT ![sym] = @ + 1]
                       ELSE fetching
        /\ nfetch' = IF spawn THEN nfetch + 1 ELSE nfetch
        /\ failed' = IF spawn THEN failed \ {sym} ELSE failed
        /\ prev_u' = Put(prev_u, sym, u)
        /\ ev_tx' = IF pd.ok
                    THEN ev_tx \o Tagged(
                            LevelEvents("LOCAL_ASK_DEPTH_EVENT", sym,
                                        data.transaction_time, pd.asks)
                            \o LevelEvents("LOCAL_BID_DEPTH_EVENT", sym,
                                        data.transaction_time, pd.bids),
                            "diff", u)
                    ELSE ev_tx

\* process_message(Stream::DepthUpdate(data)) as it would be with prev_u
\* keyed by the symbol as received.
ProcessDepthUpdate_rawkey(data, u) ==
    LET sym == to_lowercase(data.symbol)
        spawn == data.symbol \notin DOMAIN prev_u
        pd == parse_depth(data.bids, data.asks)
    IN  /\ fetching' = IF spawn THEN [fetching EXCEPT ![sym] = @ + 1]
                       ELSE fetching
        /\ nfetch' = IF spawn THEN nfetch + 1 ELSE nfetch
        /\ failed' = IF spawn THEN failed \ {sym} ELSE failed
        /\ prev_u' = Put(prev_u, data.symbol, u)
        /\ ev_tx' = IF pd.ok
                    THEN ev_tx \o Tagged(
                            LevelEvents("LOCAL_BID_DEPTH_EVENT", sym,
                                        data.transaction_time, pd.bids)
                            \o LevelEvents("LOCAL_ASK_DEPTH_EVENT", sym,
                                        data.transaction_time, pd.asks),
                            "diff", u)
                    ELSE ev_tx

\* process_message(Stream::DepthUpdate(data)), data a diff whose
\* last_update_id is u.
ProcessDepthUpdate(data, u) ==
    LET sym == to_lowercase(data.symbol)
        spawn == sym \notin DOMAIN prev_u
        pd == parse_depth(data.bids, data.asks)
    IN  /\ fetching' = IF spawn THEN [fetching EXCEPT ![sym] = @ + 1]
                       ELSE fetching
        /\ nfetch' = IF spawn THEN nfetch + 1 ELSE nfetch
        /\ failed' = IF spawn THEN failed \ {sym} ELSE failed
        /\ prev_u' = Put(prev_u, sym, u)
        /\ ev_tx' = IF pd.ok
                    THEN ev_tx \o Tagged(
                            LevelEvents("LOCAL_BID_DEPTH_EVENT", sym,
                                        data.transaction_time, pd.bids)
                            \o LevelEvents("LOCAL_ASK_DEPTH_EVENT", sym,
                                        data.transaction_time, pd.asks),
                            "diff", u)
                    ELSE ev_tx

\* process_message(Stream::Trade(data))
ProcessTrade(data) ==
    LET t == parse_px_qty_tup(data.price, data.qty)
        ev == IF data.is_the_buyer_the_market_maker
              THEN "LOCAL_SELL_TRADE_EVENT" ELSE "LOCAL_BUY_TRADE_EVENT"
    IN  /\ ev_tx' = IF t.ok
                    THEN ev_tx \o Tagged(
                            <<FeedEvent(ev, to_lowercase(data.symbol),
                                        data.transaction_time, t.px, t.qty)>>,
                            "trade", 0)
                    ELSE ev_tx
        /\ UNCHANGED <<prev_u, fetching, nfetch, failed>>

\* process_snapshot(symbol, data)
process_snapshot(symbol, data) ==
    LET pd == parse_depth(data.bids, data.asks)
    IN  ev_tx' = IF pd.ok
                 THEN ev_tx \o Tagged(
                        LevelEvents("LOCAL_BID_DEPTH_EVENT", symbol,
                                    data.transaction_time, pd.bids)
                        \o LevelEvents("LOCAL_ASK_DEPTH_EVENT", symbol,
                                    data.transaction_time, pd.asks),
                        "snap", data.last_update_id)
                 ELSE ev_tx

\* One turn of the select loop of connect() on an input from outside, a
\* websocket message or a symbol: the loop is running and the input handled
\* is recorded.
Turn(in) ==
    /\ cstate = "running"
    /\ nin < MaxIn
    /\ nin' = nin + 1
    /\ last_in' = in
    /\ UNCHANGED nonMdsVars

\* Some((symbol, data)) = self.rest_rx.recv(): a turn of the loop on a
\* snapshot, which the bound on the inputs from outside does not count.
RestSnapshot ==
    /\ rest_q # <<>>
    /\ cstate = "running"
    /\ last_in' = [kind |-> "Snapshot", symbol |-> Head(rest_q).symbol,
                   data |-> Head(rest_q).data]
    /\ UNCHANGED <<nin, nonMdsVars>>
    /\ process_snapshot(Head(rest_q).symbol, Head(rest_q).data)
    /\ rest_q' = Tail(rest_q)
    /\ UNCHANGED <<prev_u, fetching, ws_out, cstate, nfetch, failed, xu>>

\* symbol_rx.recv() gives Ok(symbol): the SUBSCRIBE frame is written, or the
\* write fails.
SymbolOk ==
    \E symbol \in Symbols, wfail \in BOOLEAN :
        /\ Turn([kind |-> "Symbol", symbol |-> symbol, wfail |-> wfail])
        /\ IF wfail
           THEN cstate' = "Error" /\ UNCHANGED ws_out
           ELSE /\ ws_out' = Append(ws_out, <<"SUBSCRIBE", symbol>>)
                /\ UNCHANGED cstate
        /\ UNCHANGED <<prev_u, fetching, rest_q, ev_tx, nfetch, failed, xu>>

\* symbol_rx.recv() gives Err(RecvError::Closed)
SymbolClosed ==
    /\ Turn([kind |-> "Closed"])
    /\ cstate' = "Ok"
    /\ UNCHANGED <<prev_u, fetching, rest_q, ev_tx, ws_out, nfetch, failed, xu>>

\* symbol_rx.recv() gives Err(RecvError::Lagged(num))
SymbolLagged ==
    /\ Turn([kind |-> "Lagged"])
    /\ UNCHANGED <<prev_u, fetching, rest_q, ev_tx, ws_out, cstate, nfetch,
                   failed, xu>>

\* Message::Text that parses to Stream::DepthUpdate: the next diff of its
\* symbol.
WsDepthUpdate ==
    \E symbol \in Symbols, shape \in DepthShapes, tt \in TTimes :
        LET sym == to_lowercase(symbol)
            data == [symbol |-> symbol, bids |-> shape.bids,
                     asks |-> shape.asks, transaction_time |-> tt]
        IN  /\ Turn([kind |-> "DepthUpdate", data |-> data,
                     u |-> xu[sym] + 1])
            /\ ProcessDepthUpdate(data, xu[sym] + 1)
            /\ xu' = [xu EXCEPT ![sym] = @ + 1]
            /\ UNCHANGED <<rest_q, ws_out, cstate>>

\* Message::Text that parses to Stream::Trade. The Stream union has these two
\* members, DepthUpdate and Trade.
WsTrade ==
    \E symbol \in Symbols, maker \in BOOLEAN, shape \in TradeShapes,
       tt \in TTimes :
        LET data == [symbol |-> symbol, price |-> shape[1], qty |-> shape[2],
                     is_the_buyer_the_market_maker |-> maker,
                     transaction_time |-> tt]
        IN  /\ Turn([kind |-> "Trade", data |-> data])
            /\ ProcessTrade(data)
            /\ UNCHANGED <<rest_q, ws_out, cstate, xu>>

\* Message::Text that does not parse to a Stream, and Binary, Frame, Pong.
WsIgnored ==
    \E kind \in {"TextBad", "Binary", "Frame", "Pong"} :
        /\ Turn([kind |-> kind])
        /\ UNCHANGED <<prev_u, fetching, rest_q, ev_tx, ws_out, cstate,
                       nfetch, failed, xu>>

\* Message::Ping: the Pong is written, or the write fails.
WsPing ==
    \E wfail \in BOOLEAN :
        /\ Turn([kind |-> "Ping", wfail |-> wfail])
        /\ IF wfail
           THEN cstate' = "Error" /\ UNCHANGED ws_out
           ELSE ws_out' = Append(ws_out, <<"Pong">>) /\ UNCHANGED cstate
        /\ UNCHANGED <<prev_u, fetching, rest_q, ev_tx, nfetch, failed, xu>>

\* The arm of read.next() that ends the loop as it would be with the Close
\* frame among the ignored ones.
WsEnd_closeignored ==
    \E kind \in {"Close", "ReadErr", "None"} :
        /\ Turn([kind |-> kind])
        /\ cstate' = IF kind = "Close" THEN "running"
                     ELSE IF kind = "ReadErr" THEN "Error"
                     ELSE "ConnectionInterrupted"
        /\ UNCHANGED <<prev_u, fetching, rest_q, ev_tx, ws_out, nfetch,
                       failed, xu>>

\* Message::Close, Some(Err(error)) and None
WsEnd ==
    \E kind \in {"Close", "ReadErr", "None"} :
        /\ Turn([kind |-> kind])
        /\ cstate' = IF kind = "Close" THEN "ConnectionAbort"
                     ELSE IF kind = "ReadErr" THEN "Error"
                     ELSE "ConnectionInterrupted"
        /\ UNCHANGED <<prev_u, fetching, rest_q, ev_tx, ws_out, nfetch,
                       failed, xu>>

\* A detached get_depth task ends with Ok(depth): the snapshot, taken at
\* the latest update id of the symbol, goes to rest_tx.
FetchOk ==
    \E sym \in LowerSymbols, shape \in SnapShapes, tt \in TTimes :
        LET su == xu[sym]
        IN  /\ fetching[sym] > 0
            /\ fetching' = [fetching EXCEPT ![sym] = @ - 1]
            /\ rest_q' = Append(rest_q,
                    [symbol |-> sym,
                     data |-> [bids |-> shape.bids, asks |-> shape.asks,
                               transaction_time |-> tt,
                               last_update_id |-> su]])
            /\ UNCHANGED <<prev_u, ev_tx, ws_out, cstate, last_in, nin,
                           nfetch, failed, xu>>
            /\ UNCHANGED nonMdsVars

\* A detached get_depth task ends with Err(error): the error is logged.
FetchErr ==
    \E sym \in LowerSymbols :
        /\ fetching[sym] > 0
        /\ fetching' = [fetching EXCEPT ![sym] = @ - 1]
        /\ failed' = failed \cup {sym}
        /\ UNCHANGED <<prev_u, rest_q, ev_tx, ws_out, cstate, last_in, nin,
                       nfetch, xu>>
        /\ UNCHANGED nonMdsVars

MdsNext ==
    \/ RestSnapshot
    \/ SymbolOk
    \/ SymbolClosed
    \/ SymbolLagged
    \/ WsDepthUpdate
    \/ WsTrade
    \/ WsIgnored
    \/ WsPing
    \/ WsEnd
    \/ FetchOk
    \/ FetchErr

MdsSpec == Init /\ [][MdsNext]_vars

\* The depth path alone: diffs, the snapshot tasks and the snapshots.
DepthNext ==
    \/ WsDepthUpdate
    \/ FetchOk
    \/ FetchErr
    \/ RestSnapshot

DepthSpec == Init /\ [][DepthNext]_vars

\* One call on the book, run to its return or to its panic.
Call(out) ==
    /\ ~panicked
    /\ nops < MaxOps
    /\ bid_depth' = out.b.bid_depth
    /\ ask_depth' = out.b.ask_depth
    /\ orders' = out.b.orders
    /\ best_bid_tick' = out.b.best_bid_tick
    /\ best_ask_tick' = out.b.best_ask_tick
    /\ ret' = out.ret
    /\ panicked' = (out.ret.res = "Panic")
    /\ nops' = nops + 1
    /\ UNCHANGED nonBookVars

AddBuyOrder ==
    \E id \in OrderIds, px \in PxSet, qty \in AddQtySet :
        Call(add_buy_order(Book, id, px, qty))

AddSellOrder ==
    \E id \in OrderIds, px \in PxSet, qty \in AddQtySet :
        Call(add_sell_order(Book, id, px, qty))

DeleteOrder ==
    \E id \in OrderIds : Call(delete_order(Book, id))

ModifyOrder ==
    \E id \in OrderIds, px \in PxSet, qty \in ModQtySet :
        Call(modify_order(Book, id, px, qty))

ClearDepth ==
    \E side \in SideCodes, px \in PxSet : Call(clear_depth(Book, side, px))

BookNext ==
    \/ AddBuyOrder
    \/ AddSellOrder
    \/ DeleteOrder
    \/ ModifyOrder
    \/ ClearDepth

BookSpec == Init /\ [][BookNext]_vars

\* The same calls made the way a well-behaved feed makes them: an order is
\* added under an id that is not in the book, modified and deleted only
\* while it is in the book, and the depth is never cleared.
UniqueAddBuyOrder ==
    \E id \in OrderIds \ DOMAIN orders, px \in PxSet, qty \in AddQtySet :
        Call(add_buy_order(Book, id, px, qty))

UniqueAddSellOrder ==
    \E id \in OrderIds \ DOMAIN orders, px \in PxSet, qty \in AddQtySet :
        Call(add_sell_order(Book, id, px, qty))

ExistingDeleteOrder ==
    \E id \in OrderIds \cap DOMAIN orders : Call(delete_order(Book, id))

ExistingModifyOrder ==
    \E id \in OrderIds \cap DOMAIN orders, px \in PxSet, qty \in ModQtySet :
        Call(modify_order(Book, id, px, qty))

UniqueNext ==
    \/ UniqueAddBuyOrder
    \/ UniqueAddSellOrder
    \/ ExistingDeleteOrder
    \/ ExistingModifyOrder

UniqueSpec == Init /\ [][UniqueNext]_vars

\* ------------------------------------------------------ book: claims  ---
RECURSIVE SumQty(_, _, _, _)
\* Sum of qty over the orders of ids that rest on the given side and tick.
SumQty(os, ids, side, tick) ==
    IF ids = {} THEN 0
    ELSE LET i == CHOOSE x \in ids : TRUE
         IN  (IF os[i].side = side /\ os[i].price_tick = tick
              THEN os[i].qty ELSE 0)
             + SumQty(os, ids \ {i}, side, tick)

Ticks == {PriceTick(px) : px \in PxSet}

IsAdd(r) == r.op \in {"add_buy_order", "add_sell_order"}

\* C1: with unique order ids and no over-delete, the cached best_bid_tick is
\* the greatest key of bid_depth (INVALID_MIN when empty) and the cached
\* best_ask_tick is the least key of ask_depth (INVALID_MAX when empty).
C1_BestTickIsExtremum ==
    ~panicked =>
        /\ best_bid_tick = LastKey(bid_depth)
        /\ best_ask_tick = FirstKey(ask_depth)

\* C2: with unique order ids and successful calls only, the quantity of each
\* level equals the sum of the quantities of the orders resting on it, an
\* absent level counting as 0.
C2_LevelIsSumOfOrders ==
    ~panicked =>
        \A t \in Ticks :
            /\ QtyAt(bid_depth, t) = SumQty(orders, DOMAIN orders, "Buy", t)
            /\ QtyAt(ask_depth, t) = SumQty(orders, DOMAIN orders, "Sell", t)

\* C3: no depth map retains a level whose quantity is zero in lot units.
C3_NoEmptyLevel ==
    ~panicked =>
        /\ \A t \in DOMAIN bid_depth : LotRound(bid_depth[t]) # 0
        /\ \A t \in DOMAIN ask_depth : LotRound(ask_depth[t]) # 0

\* C4: modify_order on a Sell order leaves bid_depth as it was, and
\* modify_order on a Buy order leaves ask_depth as it was.
C4_ModifyTouchesOwnSideOnly ==
    [][ret'.op = "modify_order" =>
            /\ ret'.side = "Sell" => bid_depth' = bid_depth
            /\ ret'.side = "Buy" => ask_depth' = ask_depth]_vars

\* C5: add_buy_order returns (prev, new), prev the best bid tick before the
\* call and new the highest tick in bid_depth after it; add_sell_order
\* returns (prev, new) with new the lowest tick in ask_depth after it.
C5_AddReturnsBestInBook ==
    [][/\ (ret'.op = "add_buy_order" /\ ret'.res = "Ok") =>
                ret'.val = <<best_bid_tick, LastKey(bid_depth')>>
       /\ (ret'.op = "add_sell_order" /\ ret'.res = "Ok") =>
                ret'.val[2] = FirstKey(ask_depth')]_vars

\* C6: an add returns OrderIdExist exactly when the id was in orders, a
\* modify or delete returns OrderNotFound exactly when the id was not in
\* orders, and every other call returns Ok.
C6_ErrorsExactlyOnIdLookup ==
    [][/\ IsAdd(ret') =>
                ret'.res = (IF ret'.id \in DOMAIN orders
                            THEN "OrderIdExist" ELSE "Ok")
       /\ ret'.op \in {"modify_order", "delete_order"} =>
                ret'.res = (IF ret'.id \notin DOMAIN orders
                            THEN "OrderNotFound" ELSE "Ok")]_vars

\* C7: an add under a fresh id followed at once by the delete of that id
\* leaves bid_depth, ask_depth and orders as they were before the add.
C7_AddDeleteRoundTrip ==
    [][(IsAdd(ret') /\ ret'.res = "Ok") =>
            LET d == delete_order(Book', ret'.id).b
            IN  /\ d.bid_depth = bid_depth
                /\ d.ask_depth = ask_depth
                /\ d.orders = orders]_vars

\* C8: clear_depth empties the depth map of the side it is given, whatever
\* clear_upto_price is, and leaves the other side's map as it was.
C8_ClearDepthClearsGivenSide ==
    [][ret'.op = "clear_depth" =>
            /\ ret'.code = BUY =>
                    bid_depth' = EmptyMap /\ ask_depth' = ask_depth
            /\ ret'.code = SELL =>
                    ask_depth' = EmptyMap /\ bid_depth' = bid_depth]_vars

\* A clear of the bid side has emptied bid_depth under a resting Buy order
\* and has left the ask level of a resting Sell order in place.
C8_Witness ==
    /\ ret.op = "clear_depth"
    /\ ret.code = BUY
    /\ bid_depth = EmptyMap
    /\ \E i \in DOMAIN orders : orders[i].side = "Buy"
    /\ \E j \in DOMAIN orders :
            /\ orders[j].side = "Sell"
            /\ QtyAt(ask_depth, orders[j].price_tick) = orders[j].qty

\* ---------------------------------------------------- fan-in: claims  ---
InChan(n) == \E e \in Endpoints : \E i \in DOMAIN chan[e] : chan[e][i].n = n

Returned(n) == \E j \in DOMAIN delivered : delivered[j].n = n

RECURSIVE Waiting(_)
\* Number of samples waiting in the endpoints of es.
Waiting(es) ==
    IF es = {} THEN 0
    ELSE LET e == CHOOSE x \in es : TRUE
         IN  Len(chan[e]) + Waiting(es \ {e})

\* C9: recv_timeout(id, _) returns only events whose destination is TO_ALL
\* or id; a sample addressed to another id is taken from its endpoint and
\* dropped, and no call returns it afterwards.
C9_OnlyAddressedReturned ==
    /\ \A j \in DOMAIN delivered :
            delivered[j].dst = TO_ALL \/ delivered[j].dst = delivered[j].to
    /\ (rpc = "idle" /\ fret.res = "Ok") =>
            /\ delivered # <<>>
            /\ delivered[Len(delivered)].n = fret.ev
            /\ delivered[Len(delivered)].to = rid
    /\ \A d \in discarded :
            /\ d.dst # TO_ALL /\ d.dst # d.by
            /\ ~InChan(d.n)
            /\ ~Returned(d.n)
    /\ sent = Waiting(Endpoints) + Len(delivered) + Cardinality(discarded)

\* A call has taken a sample addressed to another receiver from the last
\* endpoint, dropped it, gone on polling and run into its timeout with
\* nothing returned.
C9_Witness ==
    /\ \E d \in discarded : d.by = rid /\ d.dst # TO_ALL /\ d.dst # rid
    /\ delivered = <<>>
    /\ Waiting(Endpoints) = 0
    /\ sent = MaxMsgs
    /\ rpc = "idle"
    /\ fret.res = "Timeout"

C11_RoundRobinWindow ==
    Len(polls) = NumEndpoints =>
        \A e \in Endpoints :
            Cardinality({i \in DOMAIN polls : polls[i] = e}) = 1

\* A full window of polls whose last poll took a sample from the last
\* endpoint and returned it, the index having wrapped to 0.
C11_Witness ==
    /\ Len(polls) = NumEndpoints
    /\ polls[NumEndpoints] = NumEndpoints - 1
    /\ delivered # <<>>
    /\ delivered[Len(delivered)].ep = NumEndpoints - 1
    /\ rpc = "idle"
    /\ fret.res = "Ok"
    /\ pubsub_i = 0

\* A sample addressed to TO_ALL or to the caller of the running call waits in
\* some endpoint.
MatchingWaiting ==
    \E e \in Endpoints : \E i \in DOMAIN chan[e] :
        chan[e][i].dst = TO_ALL \/ chan[e][i].dst = rid

\* C12: recv_timeout returns Timeout only when the time elapsed since entry
\* exceeds the timeout and no sample addressed to TO_ALL or to the caller's
\* id waits in any endpoint.
C12_TimeoutOnlyWhenNothingWaits ==
    [][(rpc = "loop" /\ rpc' = "idle" /\ fret'.res = "Timeout") =>
            (elapsed > rtimeout /\ ~MatchingWaiting)]_vars

\* C16: when the wait returns TerminationRequest or InterruptSignal the call
\* returns Interrupted in that iteration: no endpoint is polled, no sample
\* is taken from an endpoint and the round-robin index stays as it was.
C16_InterruptedTouchesNothing ==
    [][(rpc = "loop" /\ rpc' = "idle" /\ fret'.res = "Interrupted") =>
            /\ chan' = chan
            /\ pubsub_i' = pubsub_i
            /\ polls' = polls
            /\ delivered' = delivered
            /\ discarded' = discarded]_vars

\* A call was interrupted in its first iteration while a sample addressed
\* to it waited in the endpoint the index points at: the sample is still
\* there and no poll was ever made.
C16_Witness ==
    /\ rpc = "idle"
    /\ fret.res = "Interrupted"
    /\ polls = <<>>
    /\ pubsub_i = 0
    /\ chan[0] # <<>>
    /\ Head(chan[0]).dst = rid

\* C13: two samples published to the same endpoint, both addressed to TO_ALL
\* or to k, are never returned by recv_timeout(k, _) in the reverse order:
\* returns from one endpoint follow the order of publication, and no
\* returned sample has overtaken an addressed sample that still waits in
\* its endpoint.
C13_PerEndpointOrder ==
    /\ \A i, j \in DOMAIN delivered :
            (i < j /\ delivered[i].ep = delivered[j].ep) =>
                delivered[i].n < delivered[j].n
    /\ \A j \in DOMAIN delivered :
            \A i \in DOMAIN chan[delivered[j].ep] :
                LET w == chan[delivered[j].ep][i]
                IN  (w.dst = TO_ALL \/ w.dst = rid) => delivered[j].n < w.n

\* Two samples of the last endpoint, one addressed to TO_ALL and one to the
\* caller, have been returned in the order of their publication.
C13_Witness ==
    /\ Len(delivered) = 2
    /\ delivered[1].ep = NumEndpoints - 1
    /\ delivered[2].ep = NumEndpoints - 1
    /\ delivered[1].dst = TO_ALL
    /\ delivered[2].dst = rid
    /\ delivered[1].n < delivered[2].n

\* ---------------------------------------------- IPC endpoint: claims  ---
\* C14: what receive() returns is Some((r, m)) for the oldest (r, m) sent
\* and not yet received, so that a send followed by a receive gives back the
\* id and the message and successive sends are received in send order; on a
\* service with no pending sample receive() returns None and changes
\* nothing.
C14_IpcRoundTrip ==
    [][/\ Len(svc') + Len(svc_got') = Len(svc_sent')
       /\ (/\ svc_ret'.op = "receive"
           /\ svc_ret'.res # "SubscriberReceive"
           /\ (svc_ret' # svc_ret \/ svc' # svc)) =>
                IF svc = <<>>
                THEN /\ svc_ret'.res = "None"
                     /\ svc' = svc
                     /\ svc_got' = svc_got
                ELSE /\ svc_ret'.res = "Some"
                     /\ <<svc_ret'.id, svc_ret'.data>> =
                            svc_sent[Len(svc_got) + 1]
                     /\ svc' = Tail(svc)]_vars

\* Two messages of different encoded lengths, sent under different ids, have
\* been received in send order, and a further receive has returned None.
C14_Witness ==
    /\ Len(svc_sent) = 2
    /\ svc_got = svc_sent
    /\ svc_sent[1][1] # svc_sent[2][1]
    /\ svc_sent[1][2] = <<70000>>
    /\ svc_sent[2][2] = <<250, 251>>
    /\ svc_ret.op = "receive"
    /\ svc_ret.res = "None"

\* C15: send(asset_no, request) returns AssetNotFound and publishes nothing
\* when asset_no is no index of the endpoint list; with a valid index it
\* does not return AssetNotFound, and when it returns Ok it has published
\* the request, with id TO_ALL, on the endpoint at asset_no and has left
\* every other endpoint as it was.
C15_SendRoutesByAssetNo ==
    [][(sret' # sret \/ frombot' # frombot) =>
            LET a == sret'.asset_no
            IN  IF a \notin Endpoints
                THEN sret'.res = "AssetNotFound" /\ frombot' = frombot
                ELSE /\ sret'.res # "AssetNotFound"
                     /\ sret'.res # "Ok" => frombot' = frombot
                     /\ sret'.res = "Ok" =>
                            /\ \A e \in Endpoints \ {a} :
                                    frombot'[e] = frombot[e]
                            /\ Len(frombot'[a]) = Len(frombot[a]) + 1
                            /\ SubSeq(frombot'[a], 1, Len(frombot[a]))
                                    = frombot[a]
                            /\ LET x == frombot'[a][Len(frombot'[a])]
                               IN  /\ x.id = TO_ALL
                                   /\ Decode(SubSeq(x.payload, 1, x.len)).val
                                        = sret'.data]_vars

\* A request was published on the last endpoint only, and the next send, to
\* the index just past the list, has returned AssetNotFound.
C15_Witness ==
    /\ sret.res = "AssetNotFound"
    /\ sret.asset_no = NumEndpoints
    /\ Len(frombot[NumEndpoints - 1]) = 1
    /\ \A e \in Endpoints \ {NumEndpoints - 1} : frombot[e] = <<>>
\* A step that handles a depth diff of a symbol whose last snapshot fetch
\* failed and has not been followed by another fetch.
DiffAfterFailedFetch ==
    /\ last_in'.kind = "DepthUpdate"
    /\ nin' = nin + 1
    /\ to_lowercase(last_in'.data.symbol) \in failed

\* C17: when the detached snapshot fetch of a symbol has failed, the next
\* depth diff received for that symbol spawns a new snapshot fetch, prev_u
\* being still absent for the symbol.
C17_FailedFetchRetriggered ==
    [][DiffAfterFailedFetch =>
        /\ to_lowercase(last_in'.data.symbol) \notin DOMAIN prev_u
        /\ nfetch' = nfetch + 1
        /\ fetching'[to_lowercase(last_in'.data.symbol)] =
               fetching[to_lowercase(last_in'.data.symbol)] + 1]_vars

\* A step that handles a depth diff all of whose levels are well formed.
WellFormedDiffStep ==
    /\ last_in'.kind = "DepthUpdate"
    /\ nin' = nin + 1
    /\ \A i \in DOMAIN last_in'.data.bids :
           ParseNum(last_in'.data.bids[i][1]) >= 0
           /\ ParseNum(last_in'.data.bids[i][2]) >= 0
    /\ \A i \in DOMAIN last_in'.data.asks :
           ParseNum(last_in'.data.asks[i][1]) >= 0
           /\ ParseNum(last_in'.data.asks[i][2]) >= 0

\* The event at position i of the queue is the level event of kind ev for
\* the level (px, qty) of the diff just handled.
IsLevelEventOf(i, ev, level) ==
    /\ ev_tx'[i].src = "diff"
    /\ ev_tx'[i].u = last_in'.u
    /\ ev_tx'[i].e.ev = ev
    /\ ev_tx'[i].e.px = ParseNum(level[1])
    /\ ev_tx'[i].e.qty = ParseNum(level[2])
    /\ ev_tx'[i].e.exch_ts = last_in'.data.transaction_time * 1000000
    /\ ev_tx'[i].e.symbol = to_lowercase(last_in'.data.symbol)

\* C18: a well-formed depth diff puts its events behind those of the diffs
\* that arrived before it; it gives one event per level, the bid level
\* events in the diff's level order first, then the ask level events, each
\* with exch_ts = transaction_time * 1000000 and the lower-cased symbol.
C18_DepthEventsInOrder ==
    [][WellFormedDiffStep =>
        LET bids == last_in'.data.bids
            asks == last_in'.data.asks
            n == Len(ev_tx)
        IN  /\ Len(ev_tx') = n + Len(bids) + Len(asks)
            /\ SubSeq(ev_tx', 1, n) = ev_tx
            /\ \A i \in 1..Len(bids) :
                   IsLevelEventOf(n + i, "LOCAL_BID_DEPTH_EVENT", bids[i])
            /\ \A j \in 1..Len(asks) :
                   IsLevelEventOf(n + Len(bids) + j,
                                  "LOCAL_ASK_DEPTH_EVENT", asks[j])]_vars

\* Two well-formed diffs of one symbol, "BT" then "BT", have been handled:
\* the three events of the first (two bids, one ask) are followed by the
\* three of the second.
C18_Witness ==
    /\ Len(ev_tx) = 6
    /\ \A i \in 1..3 : ev_tx[i].src = "diff" /\ ev_tx[i].u = 1
    /\ \A i \in 4..6 : ev_tx[i].src = "diff" /\ ev_tx[i].u = 2
    /\ \A i \in 1..6 : ev_tx[i].e.symbol = <<98, 116>>
    /\ ev_tx[3].e.ev = "LOCAL_ASK_DEPTH_EVENT"
    /\ ev_tx[4].e.ev = "LOCAL_BID_DEPTH_EVENT"
    /\ last_in.kind = "DepthUpdate"
    /\ last_in.data.symbol = <<66, 84>>

\* A step that is one turn of the select loop: an input from outside or a
\* snapshot from the inbox has been handled.
LoopTurn ==
    \/ nin' = nin + 1
    \/ Len(rest_q') = Len(rest_q) - 1

\* What connect() has returned after handling the input, "running" while it
\* has not returned.
OutcomeOf(in) ==
    IF in.kind = "Closed" THEN "Ok"
    ELSE IF in.kind = "Close" THEN "ConnectionAbort"
    ELSE IF in.kind = "None" THEN "ConnectionInterrupted"
    ELSE IF in.kind = "ReadErr" THEN "Error"
    ELSE IF in.kind \in {"Symbol", "Ping"} /\ in.wfail THEN "Error"
    ELSE "running"

\* C19: the loop of connect() ends exactly on the closing of the symbol
\* broadcast (Ok), a Close frame (ConnectionAbort), the end of the websocket
\* stream (ConnectionInterrupted) and a transport error on read or write
\* (that error); a snapshot, a symbol, a lagged notice, a Text frame that
\* parses or not, Ping, Pong, Binary and Frame leave it running, and so does
\* the end of a snapshot task. Once ended, the loop handles nothing.
C19_LoopEndsExactlyOn ==
    [][/\ LoopTurn => cstate = "running" /\ cstate' = OutcomeOf(last_in')
       /\ ~LoopTurn => cstate' = cstate]_vars

\* A diff has been handled, which left the loop running, and then a Close
\* frame has ended it with ConnectionAbort.
C19_Witness ==
    /\ cstate = "ConnectionAbort"
    /\ last_in.kind = "Close"
    /\ nin = 2
    /\ ev_tx # <<>>

\* The snapshot of the symbol has been requested and not yet received by
\* the loop: its task runs, or its result waits in the inbox.
SnapshotPending(sym) ==
    \/ fetching[sym] > 0
    \/ \E k \in DOMAIN rest_q : rest_q[k].symbol = sym

\* C20: a depth diff of a symbol that arrives between the request of the
\* symbol's snapshot and its receipt is held back, not emitted; and when the
\* events of a snapshot are emitted, no event of a diff of that symbol newer
\* than the snapshot is ahead of them in the queue.
C20_DiffsBufferedUntilSnapshot ==
    [][/\ (/\ last_in'.kind = "DepthUpdate"
           /\ nin' = nin + 1
           /\ SnapshotPending(to_lowercase(last_in'.data.symbol)))
          => ev_tx' = ev_tx
       /\ (/\ Len(rest_q') = Len(rest_q) - 1
           /\ last_in'.kind = "Snapshot")
          => \A i \in DOMAIN ev_tx :
                 (ev_tx[i].src = "diff"
                  /\ ev_tx[i].e.symbol = last_in'.symbol)
                 => ev_tx[i].u <= last_in'.data.last_update_id]_vars

\* A step that handles a depth diff.
DiffStep ==
    /\ last_in'.kind = "DepthUpdate"
    /\ nin' = nin + 1

\* C21: on every depth diff handled, a snapshot fetch is spawned if and only
\* if prev_u has no entry for the diff's lower-cased symbol when it arrives;
\* afterwards prev_u holds the diff's last_update_id for that symbol, the
\* entries of the other symbols are as before, and every key of prev_u is
\* in lower case, so that symbols differing in letter case share an entry.
C21_FetchIffNoPrevU ==
    [][DiffStep =>
        LET sym == to_lowercase(last_in'.data.symbol)
        IN  /\ IF sym \in DOMAIN prev_u
               THEN nfetch' = nfetch /\ fetching' = fetching
               ELSE /\ nfetch' = nfetch + 1
                    /\ fetching'[sym] = fetching[sym] + 1
                    /\ \A o \in DOMAIN fetching \ {sym} :
                           fetching'[o] = fetching[o]
            /\ DOMAIN prev_u' = DOMAIN prev_u \cup {sym}
            /\ prev_u'[sym] = last_in'.u
            /\ \A o \in DOMAIN prev_u \ {sym} : prev_u'[o] = prev_u[o]
            /\ \A k \in DOMAIN prev_u' : to_lowercase(k) = k]_vars

\* A diff for "bt" has been handled as the second diff of that symbol (its
\* last_update_id is 2, so the first came as "BT" or "bt"): one fetch has
\* been spawned in all and prev_u has the one entry, bt -> 2.
C21_Witness ==
    /\ last_in.kind = "DepthUpdate"
    /\ last_in.data.symbol = <<98, 116>>
    /\ last_in.u = 2
    /\ nfetch = 1
    /\ DOMAIN prev_u = {<<98, 116>>}
    /\ prev_u[<<98, 116>>] = 2

\* The depth map of a side of the book.
DepthOf(b, side) == IF side = "Buy" THEN b.bid_depth ELSE b.ask_depth

\* The cached best tick of a side of the book.
BestOf(b, side) == IF side = "Buy" THEN b.best_bid_tick ELSE b.best_ask_tick

\* C22: modify_order on an order of the book returns Ok with the code of the
\* order's side and stores the new price tick and quantity in the order.
\* With the price tick unchanged the order's level changes by the new
\* quantity less the old one, no other level of either side changes, both
\* cached best ticks stay and the value returned is (best_tick, best_tick).
\* With the price tick changed the old level loses the old quantity, the new
\* level gains the new quantity and the value returned is (best tick before,
\* best tick after).
C22_ModifySemantics ==
    [][(ret'.op = "modify_order" /\ ret'.id \in DOMAIN orders) =>
        LET old == orders[ret'.id]
            new == orders'[ret'.id]
            side == old.side
            own == DepthOf(Book, side)
            own2 == DepthOf(Book', side)
            ticks == DOMAIN bid_depth \cup DOMAIN ask_depth
                     \cup DOMAIN bid_depth' \cup DOMAIN ask_depth'
        IN  /\ ret'.res = "Ok"
            /\ ret'.code = (IF side = "Buy" THEN BUY ELSE SELL)
            /\ ret'.id \in DOMAIN orders'
            /\ new.side = side
            /\ IF new.price_tick = old.price_tick
               THEN /\ QtyAt(own2, old.price_tick) =
                           QtyAt(own, old.price_tick) + new.qty - old.qty
                    /\ \A t \in ticks \ {old.price_tick} :
                           QtyAt(own2, t) = QtyAt(own, t)
                    /\ DepthOf(Book', IF side = "Buy" THEN "Sell" ELSE "Buy")
                           = DepthOf(Book, IF side = "Buy" THEN "Sell" ELSE "Buy")
                    /\ best_bid_tick' = best_bid_tick
                    /\ best_ask_tick' = best_ask_tick
                    /\ ret'.val = <<BestOf(Book, side), BestOf(Book, side)>>
               ELSE /\ QtyAt(own2, old.price_tick) =
                           QtyAt(own, old.price_tick) - old.qty
                    /\ QtyAt(own2, new.price_tick) =
                           QtyAt(own, new.price_tick) + new.qty
                    /\ ret'.val = <<BestOf(Book, side), BestOf(Book', side)>>]_vars

\* C23: a call on the book that returns an error, OrderIdExist from an add
\* or OrderNotFound from modify_order or delete_order, leaves bid_depth,
\* ask_depth, orders and both cached best ticks as they were.
C23_ErrorLeavesBookUnchanged ==
    [][ret'.res \in {"OrderIdExist", "OrderNotFound"} =>
            /\ bid_depth' = bid_depth
            /\ ask_depth' = ask_depth
            /\ orders' = orders
            /\ best_bid_tick' = best_bid_tick
            /\ best_ask_tick' = best_ask_tick]_vars

\* C24: every order in orders has a level at its price tick in the depth
\* map of its side, and delete_order and modify_order on an order of the
\* book return Ok, never ending on a level that is missing.
C24_OrdersHaveLevels ==
    /\ [](\A id \in DOMAIN orders :
            orders[id].price_tick \in DOMAIN DepthOf(Book, orders[id].side))
    /\ [][(/\ ret'.op \in {"modify_order", "delete_order"}
           /\ ret'.id \in DOMAIN orders)
          => ret'.res = "Ok"]_vars

\* C25: the cached best ticks are stale on the safe side only: best_bid_tick
\* is at or above every key of bid_depth and best_ask_tick is at or below
\* every key of ask_depth.
C25_CacheBoundsLevels ==
    /\ \A t \in DOMAIN bid_depth : t <= best_bid_tick
    /\ \A t \in DOMAIN ask_depth : best_ask_tick <= t

====
